---- MODULE Spec2Model ----
(***************************************************************************)
(* A model of the playlist covert channel: sender.py hides a message in    *)
(* an ordered list of songs (first-word scheme, hex scheme), receiver.py   *)
(* recovers it.                                                            *)
(*                                                                         *)
(* Text is modelled as a sequence of Unicode code points (naturals), so    *)
(* that str.split, str.strip, str.lower, UTF-8 encoding, bytes.hex and     *)
(* bytes.fromhex are computed and not assumed.  A Song is a record with    *)
(* the three fields of models.Song.                                        *)
(***************************************************************************)
EXTENDS Integers, Sequences, FiniteSets, TLC

VARIABLES
    pc,            \* position of the running program
    message,       \* sender: the message read by get_message
    encoding,      \* sender/receiver: "1" (first word) or "2" (hex)
    first_index,   \* hex scheme parameter
    second_index,  \* hex scheme parameter
    dataset,       \* the rows of dataset.csv, in file order
    songs,         \* the song list of the main program (sent, or to decode)
    todo,          \* sender: the fragments (words or bytes) still to encode
    built,         \* sender: the encoder's local list of songs found so far
    raised,        \* the exception that ended the program, or NoException
    cache,         \* the contents of the .cache file
    searchCalls,   \* number of sp.search calls issued so far
    playlist,      \* the target playlist's track ids (held by Spotify)
    writeCalls,    \* number of playlist write calls issued so far
    decoded,       \* the receiver's outcome
    calls,         \* log of the get_song_from_first_word calls, oldest first
    procs          \* the local state of each process racing on the cache

vars == <<pc, message, encoding, first_index, second_index, dataset, songs,
          todo, built, raised, cache, searchCalls, playlist, writeCalls, decoded,
          calls, procs>>

-----------------------------------------------------------------------------
(* Bounds of the model.                                                    *)

MaxMsgLen == 2      \* characters of a hex-scheme message
MaxWords == 2       \* words of a first-word-scheme message
MaxResults == 2     \* items of one search response
MaxSongs == 2       \* songs of a playlist handed to a decoder
MaxCalls == 2       \* resolver calls in one process

-----------------------------------------------------------------------------
(* Text: code points.                                                      *)

\* The characters str.split() and str.strip() (no argument) treat as
\* whitespace.
WhitespaceChars ==
    {9, 10, 11, 12, 13, 28, 29, 30, 31, 32, 133, 160, 5760, 8232, 8233,
     8239, 8287, 12288} \cup (8192..8202)

\* The characters bytes.fromhex skips between bytes (ASCII whitespace).
AsciiWhitespace == {9, 10, 11, 12, 13, 32}

\* The argument of strip in both programs: . , ! ? ; " '
Punctuation == {46, 44, 33, 63, 59, 34, 39}

IsSpace(c) == c \in WhitespaceChars

\* str.lower on the Basic Latin and Latin-1 letters; other characters of the
\* model's alphabets have no case.
Lower(s) ==
    [n \in 1..Len(s) |->
        IF s[n] \in 65..90 THEN s[n] + 32
        ELSE IF s[n] \in (192..222) \ {215} THEN s[n] + 32
        ELSE s[n]]

RECURSIVE LStrip(_, _)
LStrip(s, chars) ==
    IF s # <<>> /\ Head(s) \in chars THEN LStrip(Tail(s), chars) ELSE s

RECURSIVE RStrip(_, _)
RStrip(s, chars) ==
    IF s # <<>> /\ s[Len(s)] \in chars
    THEN RStrip(SubSeq(s, 1, Len(s) - 1), chars)
    ELSE s

\* s.strip(chars)
Strip(s, chars) == RStrip(LStrip(s, chars), chars)

RECURSIVE TakeWord(_)
TakeWord(s) ==
    IF s = <<>> \/ IsSpace(Head(s)) THEN <<>>
    ELSE <<Head(s)>> \o TakeWord(Tail(s))

\* s.split(): the maximal runs of non-whitespace characters, in order.
RECURSIVE Split(_)
Split(s) ==
    LET t == LStrip(s, WhitespaceChars) IN
    IF t = <<>> THEN <<>>
    ELSE LET w == TakeWord(t) IN
         <<w>> \o Split(SubSeq(t, Len(w) + 1, Len(t)))

\* sep.join(words)
RECURSIVE Join(_, _)
Join(words, sep) ==
    IF words = <<>> THEN <<>>
    ELSE IF Len(words) = 1 THEN words[1]
    ELSE words[1] \o sep \o Join(Tail(words), sep)

-----------------------------------------------------------------------------
(* UTF-8 and hexadecimal.                                                  *)

\* str.encode("utf-8") of one Unicode scalar value.
Utf8OfChar(c) ==
    IF c < 128 THEN <<c>>
    ELSE IF c < 2048 THEN <<192 + (c \div 64), 128 + (c % 64)>>
    ELSE IF c < 65536
         THEN <<224 + (c \div 4096), 128 + ((c \div 64) % 64), 128 + (c % 64)>>
    ELSE <<240 + (c \div 262144), 128 + ((c \div 4096) % 64),
           128 + ((c \div 64) % 64), 128 + (c % 64)>>

RECURSIVE Utf8Encode(_)
Utf8Encode(s) ==
    IF s = <<>> THEN <<>> ELSE Utf8OfChar(Head(s)) \o Utf8Encode(Tail(s))

IsCont(b) == b \in 128..191

\* The number of bytes of the well-formed UTF-8 sequence at the head of bs,
\* or 0 when the head is not well formed (bytes.decode("utf-8") is strict:
\* no overlong forms, no surrogates, nothing above U+10FFFF).
Utf8HeadLen(bs) ==
    LET n == Len(bs)
        b1 == bs[1]
    IN  IF b1 < 128 THEN 1
        ELSE IF b1 \in 194..223
             THEN IF n >= 2 /\ IsCont(bs[2]) THEN 2 ELSE 0
        ELSE IF b1 \in 224..239
             THEN IF /\ n >= 3
                     /\ IsCont(bs[3])
                     /\ bs[2] \in (IF b1 = 224 THEN 160..191
                                   ELSE IF b1 = 237 THEN 128..159
                                   ELSE 128..191)
                  THEN 3 ELSE 0
        ELSE IF b1 \in 240..244
             THEN IF /\ n >= 4
                     /\ IsCont(bs[3])
                     /\ IsCont(bs[4])
                     /\ bs[2] \in (IF b1 = 240 THEN 144..191
                                   ELSE IF b1 = 244 THEN 128..143
                                   ELSE 128..191)
                  THEN 4 ELSE 0
        ELSE 0

Utf8HeadChar(bs, n) ==
    IF n = 1 THEN bs[1]
    ELSE IF n = 2 THEN (bs[1] - 192) * 64 + (bs[2] - 128)
    ELSE IF n = 3
         THEN (bs[1] - 224) * 4096 + (bs[2] - 128) * 64 + (bs[3] - 128)
    ELSE (bs[1] - 240) * 262144 + (bs[2] - 128) * 4096
         + (bs[3] - 128) * 64 + (bs[4] - 128)

\* bytes.decode("utf-8"): [ok |-> TRUE, text |-> the characters], or
\* ok = FALSE where Python raises UnicodeDecodeError.
RECURSIVE Utf8Decode(_)
Utf8Decode(bs) ==
    IF bs = <<>> THEN [ok |-> TRUE, text |-> <<>>]
    ELSE LET n == Utf8HeadLen(bs) IN
         IF n = 0 THEN [ok |-> FALSE, text |-> <<>>]
         ELSE LET rest == Utf8Decode(SubSeq(bs, n + 1, Len(bs))) IN
              IF rest.ok
              THEN [ok |-> TRUE, text |-> <<Utf8HeadChar(bs, n)>> \o rest.text]
              ELSE rest

\* One hexadecimal digit, lower case, as bytes.hex writes it.
HexDigit(v) == IF v < 10 THEN 48 + v ELSE 87 + v

\* bytes.hex(): two digits per byte.
RECURSIVE BytesHex(_)
BytesHex(bs) ==
    IF bs = <<>> THEN <<>>
    ELSE <<HexDigit(Head(bs) \div 16), HexDigit(Head(bs) % 16)>>
         \o BytesHex(Tail(bs))

IsHexChar(c) == c \in (48..57) \cup (97..102) \cup (65..70)

HexValue(c) ==
    IF c \in 48..57 THEN c - 48
    ELSE IF c \in 97..102 THEN c - 87
    ELSE c - 55

\* bytes.fromhex(s): ASCII whitespace is skipped before each byte, then two
\* hexadecimal digits (either case) are required.  ok = FALSE where Python
\* raises ValueError.
RECURSIVE FromHex(_)
FromHex(s) ==
    LET t == LStrip(s, AsciiWhitespace) IN
    IF t = <<>> THEN [ok |-> TRUE, bytes |-> <<>>]
    ELSE IF Len(t) < 2 \/ ~IsHexChar(t[1]) \/ ~IsHexChar(t[2])
         THEN [ok |-> FALSE, bytes |-> <<>>]
    ELSE LET rest == FromHex(SubSeq(t, 3, Len(t))) IN
         IF rest.ok
         THEN [ok |-> TRUE,
               bytes |-> <<HexValue(t[1]) * 16 + HexValue(t[2])>> \o rest.bytes]
         ELSE rest

-----------------------------------------------------------------------------
(* Songs and outcomes.                                                     *)

\* models.Song
Song(track_id, name, spotify_url) ==
    [track_id |-> track_id, name |-> name, spotify_url |-> spotify_url]

\* Song.to_dict: the record written to the cache file.
to_dict(song) ==
    [track_id |-> song.track_id, name |-> song.name,
     spotify_url |-> song.spotify_url]

\* How a call ends: it returns a value, or raises an exception of class exc
\* whose message is the template msg filled with value.
Return(v) == [kind |-> "return", exc |-> "", msg |-> "", value |-> v]
Raise(exc, msg, v) == [kind |-> "raise", exc |-> exc, msg |-> msg, value |-> v]
NoOutcome == [kind |-> "none", exc |-> "", msg |-> "", value |-> <<>>]

\* list[0] on an empty list
IndexError == Raise("IndexError", "list index out of range", <<>>)

-----------------------------------------------------------------------------
(* receiver.py                                                             *)

\* song.name.split()[0].strip('.,!?;"\'') of a name that has a first token
\* (FirstWordMut: the same without the strip.)
FirstWordMut(name) == Split(name)[1]
FirstWord(name) == Strip(Split(name)[1], Punctuation)

\* The loop of decode_first_word_encoding over the songs, in order: the
\* retained first words, or the IndexError of song.name.split()[0].
RECURSIVE FirstWords(_)
FirstWords(ss) ==
    IF ss = <<>> THEN Return(<<>>)
    ELSE LET name == Head(ss).name IN
         IF name = <<>> THEN FirstWords(Tail(ss))
         ELSE IF Split(name) = <<>> THEN IndexError
         ELSE LET first_word == FirstWord(name)
                  rest == FirstWords(Tail(ss))
              IN  IF rest.kind = "raise" THEN rest
                  ELSE IF first_word # <<>>
                       THEN Return(<<first_word>> \o rest.value)
                       ELSE rest

decode_first_word_encoding(ss) ==
    LET words == FirstWords(ss) IN
    IF words.kind = "raise" THEN words
    ELSE Return(Join(words.value, <<32>>))

\* The safety check of decode_hex_encoding.
\* (TooShortMut: the same with min in place of max.)
TooShortMut(track_id, i, j) == Len(track_id) <= (IF i < j THEN i ELSE j)
TooShort(track_id, i, j) == Len(track_id) <= (IF i > j THEN i ELSE j)

\* The loop of decode_hex_encoding: the two characters of every track id, or
\* the exception of the first track id that is too short.
RECURSIVE HexChars(_, _, _)
HexChars(ss, i, j) ==
    IF ss = <<>> THEN Return(<<>>)
    ELSE LET track_id == Head(ss).track_id IN
         IF TooShort(track_id, i, j)
         THEN Raise("Exception", "Track ID is too short to contain indices",
                    track_id)
         ELSE IF Len(track_id) <= i \/ Len(track_id) <= j
              THEN Raise("IndexError", "string index out of range", track_id)
         ELSE LET rest == HexChars(Tail(ss), i, j) IN
              IF rest.kind = "raise" THEN rest
              ELSE Return(<<track_id[i + 1], track_id[j + 1]>> \o rest.value)

\* The try block of decode_hex_encoding: ValueError (UnicodeDecodeError is a
\* ValueError) becomes the exception that carries the hex string.
\* (ParsePayloadMut: the same catching the hex error only.)
ParsePayloadMut(hex_string) ==
    LET parsed == FromHex(hex_string) IN
    IF ~parsed.ok
    THEN Raise("Exception", "Failed to decode hex string", hex_string)
    ELSE LET text == Utf8Decode(parsed.bytes) IN
         IF ~text.ok
         THEN Raise("UnicodeDecodeError", "invalid utf-8", hex_string)
         ELSE Return(text.text)
ParsePayload(hex_string) ==
    LET parsed == FromHex(hex_string) IN
    IF ~parsed.ok
    THEN Raise("Exception", "Failed to decode hex string", hex_string)
    ELSE LET text == Utf8Decode(parsed.bytes) IN
         IF ~text.ok
         THEN Raise("Exception", "Failed to decode hex string", hex_string)
         ELSE Return(text.text)

decode_hex_encoding(ss, i, j) ==
    LET chars == HexChars(ss, i, j) IN
    IF chars.kind = "raise" THEN chars ELSE ParsePayload(chars.value)

\* The range get_first_index and get_second_index accept.
IndexRange == 0..21
DefaultFirstIndex == 5
DefaultSecondIndex == 8

-----------------------------------------------------------------------------
(* sender.py: the cache file and the resolver.                             *)

EmptyDict == [key \in {} |-> <<>>]

\* The .cache file: whether the path exists, its size, and the dict its
\* JSON text holds.  NoFile is the file before anything was saved.
NoFile == [exists |-> FALSE, size |-> "zero", data |-> EmptyDict]

\* open(path, "w"): the file exists and is empty until the text is written.
Truncated == [exists |-> TRUE, size |-> "zero", data |-> EmptyDict]

\* load_song_cache: {} for a missing or empty file, else the saved dict.
load_song_cache(file) ==
    IF ~file.exists \/ file.size = "zero" THEN EmptyDict ELSE file.data

\* save_song_cache: the file is rewritten with the whole dict (json.dump
\* writes at least "{}").
save_song_cache(dict) == [exists |-> TRUE, size |-> "nonzero", data |-> dict]

\* cache[word] = value
\* (DictSetMut: the same on a fresh dict, dropping the other keys.)
DictSetMut(dict, key, value) == [k \in {key} |-> value]
DictSet(dict, key, value) ==
    [k \in DOMAIN dict \cup {key} |-> IF k = key THEN value ELSE dict[k]]

\* cache.get(word), as a truth value
DictHas(dict, key) == key \in DOMAIN dict /\ dict[key] # <<>>

\* word.strip('.,!?;"\'').split()[0]
NormalizeWord(word) ==
    LET parts == Split(Strip(word, Punctuation)) IN
    IF parts = <<>> THEN IndexError ELSE Return(parts[1])

\* The condition of the list comprehension over results['tracks']['items'].
NameMatches(name, word) ==
    Lower(Strip(Split(name)[1], Punctuation)) = Lower(word)

\* The list comprehension: the Songs of the items whose first word matches,
\* in order, or the IndexError of song['name'].split()[0].
RECURSIVE MatchingSongs(_, _)
MatchingSongs(items, word) ==
    IF items = <<>> THEN Return(<<>>)
    ELSE LET item == Head(items) IN
         IF Split(item.name) = <<>> THEN IndexError
         ELSE LET rest == MatchingSongs(Tail(items), word) IN
              IF rest.kind = "raise" THEN rest
              ELSE IF NameMatches(item.name, word)
                   THEN Return(<<Song(item.id, item.name, item.url)>>
                               \o rest.value)
                   ELSE rest

\* What the cache-hit branch does with the loaded dict: pick one record.
CachedSong(dict, word, pick) ==
    LET song == dict[word][pick] IN
    Song(song.track_id, song.name, song.spotify_url)

\* What one call leaves behind: its outcome (a raise, or a return of <<>> for
\* None and <<song>> for a Song), the cache file, the number of sp.search
\* calls it issued and the key it used.
Resolution(outcome, file, searches, key) ==
    [outcome |-> outcome, file |-> file, searches |-> searches, key |-> key]

\* The else branch of get_song_from_first_word, after sp.search returned
\* response (ok = FALSE: a falsy response).
\* (SearchedMut: the same without the save.)
SearchedMut(word, dict, file, response, pick) ==
    IF ~response.ok THEN Resolution(Return(<<>>), file, 1, word)
    ELSE LET found == MatchingSongs(response.items, word) IN
         IF found.kind = "raise" THEN Resolution(found, file, 1, word)
         ELSE IF found.value = <<>> THEN Resolution(Return(<<>>), file, 1, word)
         ELSE Resolution(Return(<<found.value[pick]>>), file, 1, word)
Searched(word, dict, file, response, pick) ==
    IF ~response.ok THEN Resolution(Return(<<>>), file, 1, word)
    ELSE LET found == MatchingSongs(response.items, word) IN
         IF found.kind = "raise" THEN Resolution(found, file, 1, word)
         ELSE IF found.value = <<>> THEN Resolution(Return(<<>>), file, 1, word)
         ELSE Resolution(
                 Return(<<found.value[pick]>>),
                 save_song_cache(
                     DictSet(dict, word,
                             [n \in 1..Len(found.value) |->
                                 to_dict(found.value[n])])),
                 1, word)

\* Whether the call gets as far as sp.search.
Searches(word, file) ==
    LET norm == NormalizeWord(word) IN
    norm.kind = "return" /\ ~DictHas(load_song_cache(file), norm.value)

\* The number of songs random.choice picks from.
Choices(word, dict, response) ==
    IF DictHas(dict, word) THEN Len(dict[word])
    ELSE IF ~response.ok THEN 1
    ELSE LET found == MatchingSongs(response.items, word) IN
         IF found.kind = "raise" \/ found.value = <<>> THEN 1
         ELSE Len(found.value)

\* get_song_from_first_word(word, sp), with the response sp.search gives if
\* asked and the index random.choice picks.
get_song_from_first_word(word, file, response, pick) ==
    LET norm == NormalizeWord(word) IN
    IF norm.kind = "raise" THEN Resolution(norm, file, 0, <<>>)
    ELSE LET dict == load_song_cache(file) IN
         IF DictHas(dict, norm.value)
         THEN Resolution(Return(<<CachedSong(dict, norm.value, pick)>>),
                         file, 0, norm.value)
         ELSE Searched(norm.value, dict, file, response, pick)

-----------------------------------------------------------------------------
(* sender.py: the two encoders and the main program.                       *)

\* raise Exception(f"No songs found for the {what} '{fragment}'.") : the
\* encoder ends, main never assigns songs.
\* (NoSongsFoundMut: returning the songs found so far instead.)
NoSongsFoundMut(what, fragment, found) ==
    [pc |-> "encoded", songs |-> found, raised |-> NoOutcome]
NoSongsFound(what, fragment, found) ==
    [pc |-> "failed", songs |-> <<>>,
     raised |-> Raise("Exception", "No songs found for the " \o what, fragment)]

\* The condition of the list comprehension over the dataset rows.
\* (RowMatchesMut: the same comparing the first position only.)
RowMatchesMut(track_id, byte, i, j) == track_id[i + 1] = byte[1]
RowMatches(track_id, byte, i, j) ==
    track_id[i + 1] = byte[1] /\ track_id[j + 1] = byte[2]

\* The list comprehension over csv.DictReader: the rows that match, in file
\* order, or the IndexError of indexing a track id that is too short ("and"
\* does not index the second position when the first differs).
RECURSIVE MatchedSongs(_, _, _, _)
MatchedSongs(rows, byte, i, j) ==
    IF rows = <<>> THEN Return(<<>>)
    ELSE LET track_id == Head(rows).track_id IN
         IF \/ Len(track_id) <= i
            \/ (track_id[i + 1] = byte[1] /\ Len(track_id) <= j)
         THEN Raise("IndexError", "string index out of range", track_id)
         ELSE LET rest == MatchedSongs(Tail(rows), byte, i, j) IN
              IF rest.kind = "raise" THEN rest
              ELSE IF RowMatches(track_id, byte, i, j)
                   THEN Return(<<Head(rows)>> \o rest.value)
                   ELSE rest

\* [hex_message[i:i+2] for i in range(0, len(hex_message), 2)]
HexPairs(hex_message) ==
    [n \in 1..(Len(hex_message) \div 2) |->
        <<hex_message[2 * n - 1], hex_message[2 * n]>>]

-----------------------------------------------------------------------------
(* The inputs the model draws from.                                        *)

\* A track id of the catalogue's length (22 characters, positions 0..21)
\* with character a at the even positions and b at the odd ones.
Alternating(a, b) == [n \in 1..22 |-> IF n % 2 = 1 THEN a ELSE b]

Id48 == Alternating(52, 56)     \* "4848...": byte 48 is "H"
Id69 == Alternating(54, 57)     \* "6969...": byte 69 is "i"
IdC3 == Alternating(99, 51)     \* "c3c3...": first byte of U+00E9
IdA9 == Alternating(97, 57)     \* "a9a9...": second byte of U+00E9
\* "5SuOikwiRyPMVoIQDJUgSV", an id as the catalogue assigns them
IdBase62 == <<53, 83, 117, 79, 105, 107, 119, 105, 82, 121, 80, 77, 86, 111,
              73, 81, 68, 74, 85, 103, 83, 86>>
IdShort == <<52, 56, 54, 57>>   \* "4869", a truncated id

TrackUrl(track_id) == <<"https://open.spotify.com/track/", track_id>>

Name_GoIt == <<71, 111, 44, 32, 73, 116>>    \* "Go, It"
Name_go == <<103, 111>>                      \* "go"
Name_Now == <<34, 78, 111, 119, 34>>         \* "Now" in double quotes
Name_Gone == <<71, 111, 110, 101>>           \* "Gone"
Name_Blank == <<32>>                         \* " "
Name_Bangs == <<33, 33>>                     \* "!!"

\* The songs a playlist handed to the receiver is made of.
DecodePool ==
    { Song(Id48, Name_GoIt, TrackUrl(Id48)),
      Song(Id69, Name_Now, TrackUrl(Id69)),
      Song(IdC3, <<>>, TrackUrl(IdC3)),
      Song(IdA9, Name_Blank, TrackUrl(IdA9)),
      Song(IdBase62, Name_Bangs, TrackUrl(IdBase62)),
      Song(IdShort, Name_go, TrackUrl(IdShort)) }

\* The sequences over S of length at most n.
SeqsUpTo(S, n) == UNION { [1..m -> S] : m \in 0..n }

\* The rows of dataset.csv (track_id, track_name).
Row(track_id, track_name) == [track_id |-> track_id, track_name |-> track_name]

\* "48484848484" then "96969696969": carries 48 only at low positions.
Id4869 == [n \in 1..22 |-> IF n <= 11 THEN Id48[n] ELSE Id69[n]]

DatasetFull ==
    << Row(Id48, Name_GoIt), Row(Id69, Name_Now), Row(IdC3, <<>>),
       Row(IdA9, Name_Blank), Row(IdBase62, Name_Bangs),
       Row(Id4869, Name_Gone) >>

\* The same file with a truncated id among its rows.
DatasetTruncated ==
    << Row(Id48, Name_GoIt), Row(Id69, Name_Now), Row(IdShort, Name_go),
       Row(IdC3, <<>>), Row(IdA9, Name_Blank) >>

Datasets == {DatasetFull, DatasetTruncated}

\* The characters of a hex-scheme message: H, i, D, U+00E9.
HexAlphabet == {72, 105, 68, 233}

HexMessages == SeqsUpTo(HexAlphabet, MaxMsgLen) \ {<<>>}

\* The words of a first-word-scheme message: go  Go,  Now  !
WordPool == {<<103, 111>>, <<71, 111, 44>>, <<78, 111, 119>>, <<33>>}

WordMessages ==
    { Join(ws, <<32>>) : ws \in SeqsUpTo(WordPool, MaxWords) \ {<<>>} }

\* The tracks sp.search answers with.
Item(id, name) == [id |-> id, name |-> name, url |-> TrackUrl(id)]

Catalog ==
    { Item(Id48, Name_GoIt), Item(Id69, Name_go), Item(IdC3, Name_Now),
      Item(IdA9, Name_Blank) }

\* What sp.search may return: nothing (falsy), or up to MaxResults items.
SearchResponses ==
    {[ok |-> FALSE, items |-> <<>>]}
    \cup { [ok |-> TRUE, items |-> items] :
             items \in SeqsUpTo(Catalog, MaxResults) }

\* The responses a call with this word can meet: sp.search is not called,
\* and so answers nothing, when the call ends before the search.
ResponsesTo(word, file) ==
    IF Searches(word, file) THEN SearchResponses
    ELSE {[ok |-> FALSE, items |-> <<>>]}

\* The words a process resolves: go  Go,  !
ResolveWords == {<<103, 111>>, <<71, 111, 44>>, <<33>>}

\* The cache file a run that resolved "Go," to the track "Go, It" left.
EarlierFile ==
    save_song_cache(
        DictSet(EmptyDict, <<71, 111>>,
                <<to_dict(Song(Id48, Name_GoIt, TrackUrl(Id48)))>>))

\* The playlist before the sender runs.
InitialPlaylist == <<IdBase62, Id48>>

-----------------------------------------------------------------------------
(* The receiver applied to a playlist: SpecDecode.                         *)

InitDecode ==
    /\ pc = "decode"
    /\ songs \in SeqsUpTo(DecodePool, MaxSongs)
    /\ encoding \in {"1", "2"}
    /\ first_index \in (IF encoding = "2" THEN IndexRange
                        ELSE {DefaultFirstIndex})
    /\ second_index \in (IF encoding = "2" THEN IndexRange
                         ELSE {DefaultSecondIndex})
    /\ decoded = NoOutcome
    /\ message = <<>>
    /\ dataset = <<>>
    /\ todo = <<>>
    /\ built = <<>>
    /\ raised = NoOutcome
    /\ cache = NoFile
    /\ searchCalls = 0
    /\ playlist = <<>>
    /\ writeCalls = 0
    /\ calls = <<>>
    /\ procs = <<>>

\* receiver.py, encoding "1": message = decode_first_word_encoding(songs)
DecodeFirstWord ==
    /\ pc = "decode"
    /\ encoding = "1"
    /\ decoded' = decode_first_word_encoding(songs)
    /\ pc' = "end"
    /\ UNCHANGED <<message, encoding, first_index, second_index, dataset,
                   songs, todo, built, raised, cache, searchCalls, playlist,
                   writeCalls, calls, procs>>

\* receiver.py, encoding "2": message = decode_hex_encoding(songs, i, j)
DecodeHex ==
    /\ pc = "decode"
    /\ encoding = "2"
    /\ decoded' = decode_hex_encoding(songs, first_index, second_index)
    /\ pc' = "end"
    /\ UNCHANGED <<message, encoding, first_index, second_index, dataset,
                   songs, todo, built, raised, cache, searchCalls, playlist,
                   writeCalls, calls, procs>>

NextDecode == DecodeFirstWord \/ DecodeHex

SpecDecode == InitDecode /\ [][NextDecode]_vars

-----------------------------------------------------------------------------
(* The sender's main program, then the receiver on what was sent: Spec.    *)

Init ==
    /\ pc = "start"
    /\ encoding \in {"1", "2"}
    /\ message \in (IF encoding = "1" THEN WordMessages ELSE HexMessages)
    /\ first_index \in (IF encoding = "2" THEN IndexRange
                        ELSE {DefaultFirstIndex})
    /\ second_index \in (IF encoding = "2" THEN IndexRange
                         ELSE {DefaultSecondIndex})
    /\ dataset \in (IF encoding = "2" THEN Datasets ELSE {DatasetFull})
    /\ songs = <<>>
    /\ todo = <<>>
    /\ built = <<>>
    /\ raised = NoOutcome
    /\ cache = NoFile
    /\ searchCalls = 0
    /\ playlist = InitialPlaylist
    /\ writeCalls = 0
    /\ decoded = NoOutcome
    /\ calls = <<>>
    /\ procs = <<>>

\* The encoder is entered: message.split(), or the hex bytes of the message.
Begin ==
    /\ pc = "start"
    /\ todo' = IF encoding = "1" THEN Split(message)
               ELSE HexPairs(BytesHex(Utf8Encode(message)))
    /\ pc' = "encode"
    /\ UNCHANGED <<message, encoding, first_index, second_index, dataset,
                   songs, built, raised, cache, searchCalls, playlist,
                   writeCalls, decoded, calls, procs>>

\* One iteration of the loop of get_first_word_encoding_songs.
EncodeWord ==
    /\ pc = "encode"
    /\ encoding = "1"
    /\ todo # <<>>
    /\ \E response \in ResponsesTo(Strip(Head(todo), WhitespaceChars), cache) :
       \E pick \in 1..Choices(NormalizeWord(Strip(Head(todo),
                                                   WhitespaceChars)).value,
                               load_song_cache(cache), response) :
          LET word == Head(todo)
              r == get_song_from_first_word(Strip(word, WhitespaceChars),
                                            cache, response, pick)
              end == IF r.outcome.kind = "raise"
                     THEN [pc |-> "failed", songs |-> <<>>,
                           raised |-> r.outcome]
                     ELSE NoSongsFound("word", word, built)
          IN  /\ cache' = r.file
              /\ searchCalls' = searchCalls + r.searches
              /\ IF r.outcome.kind = "return" /\ r.outcome.value # <<>>
                 THEN /\ built' = Append(built, r.outcome.value[1])
                      /\ todo' = Tail(todo)
                      /\ UNCHANGED <<pc, songs, raised>>
                 ELSE /\ pc' = end.pc
                      /\ songs' = end.songs
                      /\ raised' = end.raised
                      /\ UNCHANGED <<built, todo>>
    /\ UNCHANGED <<message, encoding, first_index, second_index, dataset,
                   playlist, writeCalls, decoded, calls, procs>>

\* One iteration of the loop of get_hex_encoding_songs.
EncodeByte ==
    /\ pc = "encode"
    /\ encoding = "2"
    /\ todo # <<>>
    /\ LET byte == Head(todo)
           matched_songs == MatchedSongs(dataset, byte, first_index,
                                         second_index)
           end == IF matched_songs.kind = "raise"
                  THEN [pc |-> "failed", songs |-> <<>>,
                        raised |-> matched_songs]
                  ELSE NoSongsFound("byte", byte, built)
       IN  IF matched_songs.kind = "return" /\ matched_songs.value # <<>>
           THEN /\ \E pick \in 1..Len(matched_songs.value) :
                      LET song_data == matched_songs.value[pick] IN
                      built' = Append(built,
                                      Song(song_data.track_id,
                                           song_data.track_name,
                                           TrackUrl(song_data.track_id)))
                /\ todo' = Tail(todo)
                /\ UNCHANGED <<pc, songs, raised>>
           ELSE /\ pc' = end.pc
                /\ songs' = end.songs
                /\ raised' = end.raised
                /\ UNCHANGED <<built, todo>>
    /\ UNCHANGED <<message, encoding, first_index, second_index, dataset,
                   cache, searchCalls, playlist, writeCalls, decoded, calls,
                   procs>>

\* return songs, and main's songs = ...
EncodeReturn ==
    /\ pc = "encode"
    /\ todo = <<>>
    /\ songs' = built
    /\ pc' = "encoded"
    /\ UNCHANGED <<message, encoding, first_index, second_index, dataset,
                   todo, built, raised, cache, searchCalls, playlist,
                   writeCalls, decoded, calls, procs>>

\* if songs: sp.playlist_replace_items(playlist_id, [])
PlaylistReplace ==
    /\ pc = "encoded"
    /\ songs # <<>>
    /\ playlist' = <<>>
    /\ writeCalls' = writeCalls + 1
    /\ pc' = "replaced"
    /\ UNCHANGED <<message, encoding, first_index, second_index, dataset,
                   songs, todo, built, raised, cache, searchCalls, decoded,
                   calls, procs>>

\* sp.playlist_add_items(playlist_id, [song.track_id for song in songs]);
\* the receiver then decodes the songs that were sent.
PlaylistAdd ==
    /\ pc = "replaced"
    /\ playlist' = playlist \o [n \in 1..Len(songs) |-> songs[n].track_id]
    /\ writeCalls' = writeCalls + 1
    /\ pc' = "decode"
    /\ UNCHANGED <<message, encoding, first_index, second_index, dataset,
                   songs, todo, built, raised, cache, searchCalls, decoded,
                   calls, procs>>

Next ==
    \/ Begin
    \/ EncodeWord
    \/ EncodeByte
    \/ EncodeReturn
    \/ PlaylistReplace
    \/ PlaylistAdd
    \/ DecodeFirstWord
    \/ DecodeHex

Spec == Init /\ [][Next]_vars

-----------------------------------------------------------------------------
(* One process calling the resolver again and again: SpecResolve.          *)

\* The entry the log keeps of one call: its number, its argument, and what
\* the call left behind; fresh says the cache held no key when it began.
Call(seq, word, fresh, r) ==
    [seq |-> seq, word |-> word, fresh |-> fresh, key |-> r.key,
     searches |-> r.searches, outcome |-> r.outcome]

InitResolve ==
    /\ pc = "resolve"
    /\ cache \in {NoFile, EarlierFile}
    /\ searchCalls = 0
    /\ calls = <<>>
    /\ message = <<>>
    /\ encoding = "1"
    /\ first_index = DefaultFirstIndex
    /\ second_index = DefaultSecondIndex
    /\ dataset = <<>>
    /\ songs = <<>>
    /\ todo = <<>>
    /\ built = <<>>
    /\ raised = NoOutcome
    /\ playlist = InitialPlaylist
    /\ writeCalls = 0
    /\ decoded = NoOutcome
    /\ procs = <<>>

\* get_song_from_first_word(word, sp); the log keeps the last two calls.
Resolve ==
    /\ pc = "resolve"
    /\ (IF calls = <<>> THEN 0 ELSE calls[Len(calls)].seq) < MaxCalls
    /\ \E word \in ResolveWords :
       \E response \in ResponsesTo(word, cache) :
       \E pick \in 1..Choices(NormalizeWord(word).value,
                               load_song_cache(cache), response) :
          LET r == get_song_from_first_word(word, cache, response, pick)
              seq == IF calls = <<>> THEN 1 ELSE calls[Len(calls)].seq + 1
              entry == Call(seq, word,
                            DOMAIN load_song_cache(cache) = {}, r)
          IN  /\ cache' = r.file
              /\ searchCalls' = searchCalls + r.searches
              /\ calls' = IF calls = <<>> THEN <<entry>>
                          ELSE <<calls[Len(calls)], entry>>
    /\ UNCHANGED <<pc, message, encoding, first_index, second_index, dataset,
                   songs, todo, built, raised, playlist, writeCalls, decoded,
                   procs>>

NextResolve == Resolve

SpecResolve == InitResolve /\ [][NextResolve]_vars

-----------------------------------------------------------------------------
(* Two processes in get_song_from_first_word at once: SpecRace.            *)

Procs == {1, 2}

\* The words the racing processes resolve: go  Go,  Now
RaceWords == {<<103, 111>>, <<71, 111, 44>>, <<78, 111, 119>>}

InitRace ==
    /\ pc = "race"
    /\ cache = NoFile
    /\ searchCalls = 0
    /\ procs \in [Procs -> { [pc |-> "load", word |-> w, key |-> <<>>,
                              dict |-> EmptyDict, pending |-> NoFile,
                              searches |-> 0, outcome |-> NoOutcome] :
                             w \in RaceWords }]
    /\ calls = <<>>
    /\ message = <<>>
    /\ encoding = "1"
    /\ first_index = DefaultFirstIndex
    /\ second_index = DefaultSecondIndex
    /\ dataset = <<>>
    /\ songs = <<>>
    /\ todo = <<>>
    /\ built = <<>>
    /\ raised = NoOutcome
    /\ playlist = InitialPlaylist
    /\ writeCalls = 0
    /\ decoded = NoOutcome

RaceUnchanged ==
    UNCHANGED <<pc, message, encoding, first_index, second_index, dataset,
                songs, todo, built, raised, playlist, writeCalls, decoded,
                calls>>

\* Process p normalizes its word, reads the cache file and, on a hit,
\* returns a cached song.
RaceLoad(p) ==
    /\ procs[p].pc = "load"
    /\ LET norm == NormalizeWord(procs[p].word)
           dict == load_song_cache(cache)
       IN  IF norm.kind = "return" /\ DictHas(dict, norm.value)
           THEN \E pick \in 1..Len(dict[norm.value]) :
                   procs' = [procs EXCEPT ![p] =
                       [@ EXCEPT !.pc = "done", !.key = norm.value,
                                 !.dict = dict,
                                 !.outcome = Return(
                                    <<CachedSong(dict, norm.value, pick)>>)]]
           ELSE procs' = [procs EXCEPT ![p] =
                       [@ EXCEPT !.pc = IF norm.kind = "raise" THEN "done"
                                        ELSE "search",
                                 !.key = norm.value,
                                 !.dict = dict,
                                 !.outcome = IF norm.kind = "raise" THEN norm
                                             ELSE NoOutcome]]
    /\ UNCHANGED <<cache, searchCalls>>
    /\ RaceUnchanged

\* Process p gets the answer of sp.search and builds, from the dict it
\* loaded, the dict it is about to save.
RaceSearch(p) ==
    /\ procs[p].pc = "search"
    /\ \E response \in SearchResponses :
       \E pick \in 1..Choices(procs[p].key, procs[p].dict, response) :
          LET r == Searched(procs[p].key, procs[p].dict, cache, response,
                            pick)
              saves == r.outcome.kind = "return" /\ r.outcome.value # <<>>
          IN  procs' = [procs EXCEPT ![p] =
                  [@ EXCEPT !.pc = IF saves THEN "save" ELSE "done",
                            !.pending = IF saves THEN r.file ELSE NoFile,
                            !.searches = r.searches,
                            !.outcome = r.outcome]]
    /\ searchCalls' = searchCalls + 1
    /\ UNCHANGED cache
    /\ RaceUnchanged

\* Process p opens the cache file for writing, which empties it.
RaceOpen(p) ==
    /\ procs[p].pc = "save"
    /\ cache' = Truncated
    /\ procs' = [procs EXCEPT ![p] = [@ EXCEPT !.pc = "write"]]
    /\ UNCHANGED searchCalls
    /\ RaceUnchanged

\* Process p writes its dict to the file, closes it and returns.
RaceWrite(p) ==
    /\ procs[p].pc = "write"
    /\ cache' = procs[p].pending
    /\ procs' = [procs EXCEPT ![p] = [@ EXCEPT !.pc = "done"]]
    /\ UNCHANGED searchCalls
    /\ RaceUnchanged

NextRace ==
    \E p \in Procs :
        RaceLoad(p) \/ RaceSearch(p) \/ RaceOpen(p) \/ RaceWrite(p)

SpecRace == InitRace /\ [][NextRace]_vars

-----------------------------------------------------------------------------
(* Properties of the sender followed by the receiver (Spec).               *)

EncodeReturned == pc \in {"encoded", "replaced", "decode", "end"}

\* The hex bytes of the message, as two-character strings.
MessageBytes == HexPairs(BytesHex(Utf8Encode(message)))

\* C1: hex round trip.  Whenever get_hex_encoding_songs returns for a
\* message and indices i, j, the list has one song per byte of the message's
\* UTF-8 form, the n-th song's track id has the n-th byte's two hex digits at
\* positions i and j, and decode_hex_encoding of that list with the same
\* i, j returns exactly the message.
C1_HexRoundTrip ==
    (EncodeReturned /\ encoding = "2") =>
        /\ Len(songs) = Len(Utf8Encode(message))
        /\ \A n \in 1..Len(songs) :
              <<songs[n].track_id[first_index + 1],
                songs[n].track_id[second_index + 1]>> = MessageBytes[n]
        /\ decode_hex_encoding(songs, first_index, second_index)
              = Return(message)
        /\ (pc = "end" => decoded = Return(message))

\* A two-character message with a two-byte character went through encoder
\* and decoder.
C1_Witness ==
    /\ pc = "end"
    /\ encoding = "2"
    /\ Len(message) = 2
    /\ \E n \in 1..2 : message[n] = 233
    /\ Len(songs) = 3
    /\ first_index # second_index
    /\ decoded = Return(message)

PunctuationFree(word) == \A n \in 1..Len(word) : word[n] \notin Punctuation

\* C2: first-word round trip.  The encoder returns one song per word; for a
\* message of punctuation-free words, when every word was resolved to a song
\* whose leading word (first token of the name, punctuation stripped) equals
\* the word, the decoder returns the message's words joined by single
\* spaces: same words, count and order.
C2_FirstWordRoundTrip ==
    LET words == Split(message) IN
    (EncodeReturned /\ encoding = "1") =>
        /\ Len(songs) = Len(words)
        /\ ( /\ \A n \in 1..Len(words) : PunctuationFree(words[n])
             /\ \A n \in 1..Len(songs) :
                   /\ n <= Len(words)
                   /\ Split(songs[n].name) # <<>>
                   /\ Strip(Split(songs[n].name)[1], Punctuation) = words[n] )
           => /\ decode_first_word_encoding(songs)
                    = Return(Join(words, <<32>>))
              /\ (pc = "end" =>
                     /\ decoded.kind = "return"
                     /\ Split(decoded.value) = words)

\* Two different words, one of them resolved to a song whose name carries
\* punctuation, were sent and decoded.
C2_Witness ==
    LET words == Split(message) IN
    /\ pc = "end"
    /\ encoding = "1"
    /\ Len(words) = 2
    /\ words[1] # words[2]
    /\ \A n \in 1..2 : PunctuationFree(words[n])
    /\ \E n \in 1..2 : songs[n].name = Name_Now
    /\ decoded = Return(message)

\* The number of fragments (words or bytes) of the message.
NumFragments ==
    IF encoding = "1" THEN Len(Split(message)) ELSE Len(Utf8Encode(message))

\* C7: encoding is all-or-nothing in both schemes.  A run that fails in the
\* encoder fails at a fragment still to do, hands main no song list and
\* leaves the playlist as it was, with no write call issued; and a playlist
\* write happens only when every fragment of the message has its song.
C7_AllOrNothing ==
    /\ pc = "failed" =>
          /\ raised.kind = "raise"
          /\ todo # <<>>
          /\ Len(built) + Len(todo) = NumFragments
          /\ songs = <<>>
          /\ writeCalls = 0
          /\ playlist = InitialPlaylist
    /\ pc # "failed" => raised = NoOutcome
    /\ writeCalls > 0 => Len(songs) = NumFragments
    /\ (pc \in {"start", "encode", "encoded"}) =>
          writeCalls = 0 /\ playlist = InitialPlaylist

\* The second fragment had no matching track after the first was resolved.
C7_Witness ==
    /\ pc = "failed"
    /\ Len(built) = 1
    /\ raised.exc = "Exception"
    /\ raised.value = Head(todo)
    /\ playlist = InitialPlaylist

-----------------------------------------------------------------------------
(* Properties of the decoders on any playlist (SpecDecode).                *)

MaxIndex == IF first_index > second_index THEN first_index ELSE second_index

AllLongEnough == \A n \in 1..Len(songs) : Len(songs[n].track_id) > MaxIndex

\* The accumulated hex string of a list whose ids are all long enough.
HexString ==
    [n \in 1..(2 * Len(songs)) |->
        IF n % 2 = 1 THEN songs[(n + 1) \div 2].track_id[first_index + 1]
        ELSE songs[n \div 2].track_id[second_index + 1]]

\* C5: decode_first_word_encoding is total: for every song list it returns
\* a string and never raises, whatever the names are.
C5_DecodeFirstWordTotal ==
    (pc = "end" /\ encoding = "1") => decoded.kind = "return"

\* C6: when any song of the list has a track id of length at most
\* max(first_index, second_index), decode_hex_encoding raises the
\* too-short-track-id exception, whatever the other songs hold.
C6_TruncatedIdentifier ==
    (pc = "end" /\ encoding = "2" /\ ~AllLongEnough) =>
        /\ decoded.kind = "raise"
        /\ decoded.exc = "Exception"
        /\ decoded.msg = "Track ID is too short to contain indices"
        /\ \E n \in 1..Len(songs) :
              /\ decoded.value = songs[n].track_id
              /\ Len(songs[n].track_id) <= MaxIndex

\* The short id comes second, after a song whose two characters are not
\* hexadecimal digits.
C6_Witness ==
    /\ pc = "end"
    /\ encoding = "2"
    /\ Len(songs) = 2
    /\ songs[1].track_id = IdBase62
    /\ ~IsHexChar(IdBase62[first_index + 1])
    /\ songs[2].track_id = IdShort
    /\ decoded.msg = "Track ID is too short to contain indices"

MalformedPayload ==
    Raise("Exception", "Failed to decode hex string", HexString)

\* C8: on a list whose track ids are all longer than max(first_index,
\* second_index), decode_hex_encoding either returns the text or raises the
\* failed-to-decode exception carrying the whole hex string; it raises it
\* exactly when the hex string does not parse or its bytes are not UTF-8.
C8_TwoOutcomes ==
    (pc = "end" /\ encoding = "2" /\ AllLongEnough) =>
        LET parsed == FromHex(HexString) IN
        /\ decoded.kind = "return" \/ decoded = MalformedPayload
        /\ ~parsed.ok => decoded = MalformedPayload
        /\ (parsed.ok /\ ~Utf8Decode(parsed.bytes).ok)
              => decoded = MalformedPayload
        /\ (parsed.ok /\ Utf8Decode(parsed.bytes).ok)
              => decoded = Return(Utf8Decode(parsed.bytes).text)

\* Two songs whose characters are hexadecimal digits but whose bytes are not
\* UTF-8 were reported as a failed decode.
C8_Witness ==
    /\ pc = "end"
    /\ encoding = "2"
    /\ Len(songs) = 2
    /\ AllLongEnough
    /\ FromHex(HexString).ok
    /\ decoded = MalformedPayload

-----------------------------------------------------------------------------
(* Properties of the resolver called repeatedly (SpecResolve).             *)

ReturnedSong(call) == call.outcome.kind = "return" /\ call.outcome.value # <<>>

\* The last two calls were made with the same word, the first of them on a
\* cache without keys.
TwiceFromEmpty ==
    /\ Len(calls) = 2
    /\ calls[1].fresh
    /\ calls[1].word = calls[2].word

\* C3, as claimed: from an empty cache, two consecutive calls with the same
\* word issue exactly one sp.search call, the second call none, for every
\* word and every search result.
C3_ExactlyOneSearch ==
    TwiceFromEmpty =>
        /\ calls[1].searches + calls[2].searches = 1
        /\ calls[2].searches = 0

\* C3, amended: from an empty cache, two consecutive calls with the same
\* word, the first of which returns a song, issue exactly one sp.search
\* call: the first call issues it, the second is served from the cache.
C3_OneSearchWhenFound ==
    (TwiceFromEmpty /\ ReturnedSong(calls[1])) =>
        /\ calls[1].searches = 1
        /\ calls[2].searches = 0
        /\ ReturnedSong(calls[2])
        /\ calls[2].key \in DOMAIN load_song_cache(cache)
        /\ \E n \in 1..Len(load_song_cache(cache)[calls[2].key]) :
              load_song_cache(cache)[calls[2].key][n]
                  = to_dict(calls[2].outcome.value[1])
        /\ (calls[2].seq = 2 /\ calls[1].fresh) => searchCalls = 1

\* The same word was resolved twice from an empty cache, the search having
\* answered with two matching tracks.
C3_Witness ==
    /\ TwiceFromEmpty
    /\ ReturnedSong(calls[1])
    /\ ReturnedSong(calls[2])
    /\ Len(load_song_cache(cache)[calls[2].key]) = 2
    /\ searchCalls = 1

\* A word with its case folded and its edge punctuation removed.
Folded(word) == Lower(Strip(word, Punctuation))

\* C4: two words that differ only in letter case or in leading/trailing
\* punctuation use the same cache key, so that once one of them is resolved
\* and cached, resolving the other reads that cache entry.
C4_SameCacheKey ==
    ( /\ Len(calls) = 2
      /\ Folded(calls[1].word) # <<>>
      /\ Folded(calls[1].word) = Folded(calls[2].word) )
    => /\ calls[1].key = calls[2].key
       /\ ReturnedSong(calls[1]) => calls[2].searches = 0

\* The cache key of a word: its first token after the edge punctuation is
\* removed.
KeyOf(word) == Split(Strip(word, Punctuation))[1]

\* C9: cache entries are append-only and authoritative.  No call changes or
\* removes a key that holds a non-empty list; a call whose word's key holds
\* a non-empty list issues no sp.search call and returns a song of that
\* list.
C9_AppendOnly ==
    [][ LET before == load_song_cache(cache)
            after == load_song_cache(cache')
            call == calls'[Len(calls')]
        IN  /\ \A k \in DOMAIN before :
                  before[k] # <<>> => (k \in DOMAIN after /\ after[k] = before[k])
            /\ ( /\ Split(Strip(call.word, Punctuation)) # <<>>
                 /\ KeyOf(call.word) \in DOMAIN before
                 /\ before[KeyOf(call.word)] # <<>> )
               => /\ call.searches = 0
                  /\ searchCalls' = searchCalls
                  /\ cache' = cache
                  /\ ReturnedSong(call)
                  /\ \E n \in 1..Len(before[KeyOf(call.word)]) :
                        before[KeyOf(call.word)][n]
                            = to_dict(call.outcome.value[1])
      ]_vars

\* A call added a key to a cache that held another one, and the next call
\* resolved that other key from the cache.
C9_Witness ==
    /\ Len(calls) = 2
    /\ ~calls[1].fresh
    /\ calls[1].searches = 1
    /\ ReturnedSong(calls[1])
    /\ calls[2].key # calls[1].key
    /\ calls[2].searches = 0
    /\ ReturnedSong(calls[2])
    /\ {calls[1].key, calls[2].key} \subseteq DOMAIN load_song_cache(cache)

-----------------------------------------------------------------------------
(* Properties of two racing processes (SpecRace).                          *)

\* Both processes searched for different keys, found songs and returned.
BothSaved ==
    /\ \A p \in Procs :
          /\ procs[p].pc = "done"
          /\ procs[p].searches = 1
          /\ ReturnedSong(procs[p])
    /\ procs[1].key # procs[2].key

\* One of the two calls began after the other had saved: the calls were
\* sequential.
Sequential ==
    \/ procs[1].key \in DOMAIN procs[2].dict
    \/ procs[2].key \in DOMAIN procs[1].dict

BothKeysCached ==
    {procs[1].key, procs[2].key} \subseteq DOMAIN load_song_cache(cache)

\* C10: load-modify-save is not atomic.  When two processes resolve two
\* different uncached words that both have matches, the file ends with both
\* keys exactly when the calls were sequential; when both loaded before
\* either saved, the file ends with the key of one of them only.
C10_LostUpdate ==
    BothSaved =>
        /\ Sequential <=> BothKeysCached
        /\ \E p \in Procs : procs[p].key \in DOMAIN load_song_cache(cache)

\* Both processes loaded the empty cache, both saved, and the file holds one
\* key only.
C10_Witness ==
    /\ BothSaved
    /\ \A p \in Procs : DOMAIN procs[p].dict = {}
    /\ Cardinality(DOMAIN load_song_cache(cache)) = 1

====
